---- MODULE Spec2Model ----
(***************************************************************************)
(* FileDropeer: the multi-file WebSocket uploader (FileUploader component, *)
(* src/unnamed/part_002).                                                  *)
(*                                                                         *)
(* React state.  `store` is the value of the `files` state after every     *)
(* queued updater has been applied in order (updaters are pure functions   *)
(* of the previous state and React applies them first-in first-out, so     *)
(* applying them as they are queued gives the same value); `files` is the  *)
(* value the last render saw, i.e. what the closures of the event handlers *)
(* and of the scheduler effect read.  `dirty` says a re-render is queued,  *)
(* `effectDue` that the passive effect of the last render has not run yet. *)
(* A user command (a discrete DOM event) is rendered synchronously: React  *)
(* flushes the pending passive effect, renders, and runs the new effect in *)
(* the same task.  Updates queued by WebSocket / FileReader / promise      *)
(* callbacks are rendered later, by Render, and their effect by RunEffect. *)
(*                                                                         *)
(* `page` is the Home page around the uploader (src/src/app/page.tsx) with *)
(* its setup form; `auth` follows what one transport puts on the wire, the *)
(* sha256 response included.  Each has a specification of its own          *)
(* (SpecPage, SpecWire); the uploader specifications keep both fixed.      *)
(***************************************************************************)
EXTENDS Integers, Sequences, FiniteSets, TLC

VARIABLES store, files, dirty, effectDue, socks, urlOk, nextId, filesLeft, cmdsLeft, evLeft, liveLeft, hist,
          page, auth

vars == <<store, files, dirty, effectDue, socks, urlOk, nextId, filesLeft, cmdsLeft, evLeft, liveLeft, hist,
          page, auth>>

(* ---------------------------- bounds ----------------------------------- *)
\* Each behaviour creates at most so many entries, takes so many user
\* commands and so many transport / reader / promise callbacks, on at most
\* so many transports (the others stay silent).
\* Spec: few files, every transport live.
MaxFiles == 2
MaxCmds == 2
MaxEvents == 3
MaxLive == 2
\* SpecSched: more files than MAX_CONCURRENT_UPLOADS.
SchedFiles == 10
SchedCmds == 2
SchedEvents == 3
SchedLive == 1
\* SpecRace: one file more than the cap, two live transports.
RaceFiles == 9
RaceCmds == 2
RaceEvents == 3
RaceLive == 2
\* SpecDeep: one file, followed through a whole transfer.
DeepFiles == 1
DeepCmds == 2
DeepEvents == 8
DeepLive == 1
\* SpecRetry: one file, its first attempt and the retry both live.
RetryFiles == 1
RetryCmds == 2
RetryEvents == 6
RetryLive == 2

(* ---------------------------- constants -------------------------------- *)
MiB == 1024 * 1024
CHUNK_SIZE == 4 * 1024 * 1024
MAX_CONCURRENT_UPLOADS == 8
NaN == 0 - 1

UploadStatus == {"pending", "connecting", "authenticating", "sending_metadata", "uploading", "success", "error"}
ActiveStatus == {"connecting", "authenticating", "sending_metadata", "uploading"}
Terminal == {"success", "error"}

\* The text frames a server can send, by the prefix / value onmessage tests;
\* "other" is any text no branch of onmessage matches.
Messages == {"challenge", "auth_ok", "header_ok", "upload_ok", "auth_error", "header_error", "upload_error", "error", "other"}

\* The four messages of a transfer that succeeds, in protocol order.
Expected == {"challenge", "auth_ok", "header_ok", "upload_ok"}

\* File sizes a selection can hold (bytes).
FileSizes == {0, MiB, 9 * MiB}

Min(a, b) == IF a < b THEN a ELSE b

(* ---------------------------- entries ---------------------------------- *)
\* handleFileSelect's new entry; error "none" is the absent / null cause,
\* ws 0 the absent transport.
NewUpload(id, size) ==
  [id |-> id, size |-> size, progress |-> 0, status |-> "pending", error |-> "none", ws |-> 0]

Merge(f, changes) ==
  [k \in DOMAIN f |-> IF k \in DOMAIN changes THEN changes[k] ELSE f[k]]

\* A faulty variant: the update maps over the rendered value, not over prev.
setFileState_fromRendered(s, id, changes) ==
  IF Len(files) = Len(s)
    THEN [i \in 1..Len(s) |-> IF files[i].id = id THEN Merge(files[i], changes) ELSE files[i]]
    ELSE [i \in 1..Len(s) |-> IF s[i].id = id THEN Merge(s[i], changes) ELSE s[i]]

\* A faulty variant: the update is merged into every entry.
setFileState_all(s, id, changes) == [i \in 1..Len(s) |-> Merge(s[i], changes)]

\* setFileState(id, update) with an object update.
setFileState(s, id, changes) ==
  [i \in 1..Len(s) |-> IF s[i].id = id THEN Merge(s[i], changes) ELSE s[i]]

\* A faulty variant: the close event overwrites whatever the entry holds.
CloseChanges_always(f) == [status |-> "error", error |-> "Connection lost"]

\* The functional update of ws.onclose.
CloseChanges(f) ==
  IF f.status # "success" /\ f.status # "error"
    THEN [status |-> "error", error |-> "Connection lost"]
    ELSE [error |-> f.error]

setFileStateOnClose(s, id) ==
  [i \in 1..Len(s) |-> IF s[i].id = id THEN Merge(s[i], CloseChanges(s[i])) ELSE s[i]]

Ids(s) == {s[i].id : i \in 1..Len(s)}
Entry(s, id) == s[CHOOSE i \in 1..Len(s) : s[i].id = id]
IsActive(f) == f.status \in ActiveStatus
IsPending(f) == f.status = "pending"
\* A faulty variant: the scheduler counts only the entries that are uploading.
activeUploads_onlyUploading(s) == Len(SelectSeq(s, LAMBDA f : f.status = "uploading"))

activeUploads(s) == Len(SelectSeq(s, IsActive))
pendingFiles(s) == SelectSeq(s, IsPending)

(* ---------------------------- transports ------------------------------- *)
\* One record per `new WebSocket` of handleUpload, with the locals of that
\* call: offset, the FileReader (reading), the pending sha256 promises
\* (hashing).  rcvd / auths / headers / chunks record the traffic, inOrder
\* that every message so far came in its turn, reads the reads started,
\* lastAt the offset of the last chunk sent (-1: none) and rising that each
\* chunk was sent at an offset above that of the chunk before it.
NewSock(id, size) ==
  [id |-> id, size |-> size, rs |-> "CONNECTING", aborted |-> FALSE,
   offset |-> 0, reading |-> FALSE, hashing |-> 0,
   rcvd |-> {}, auths |-> 0, headers |-> 0, chunks |-> 0, live |-> FALSE, inOrder |-> TRUE,
   reads |-> 0, lastAt |-> 0 - 1, rising |-> TRUE]

\* WebSocket.close(): a socket still connecting is failed (error, then
\* close); an open one starts the closing handshake; otherwise nothing.
wsClose(k) ==
  IF k.rs = "CONNECTING" THEN [k EXCEPT !.rs = "CLOSING", !.aborted = TRUE]
  ELSE IF k.rs = "OPEN" THEN [k EXCEPT !.rs = "CLOSING"]
  ELSE k

\* A faulty variant: cancelUpload forgets to close the transport.
CloseAt_forgotten(ss, t) == ss

CloseAt(ss, t) == IF t \in 1..Len(ss) THEN [ss EXCEPT ![t] = wsClose(ss[t])] ELSE ss

(* ---------------------------- handleUpload ----------------------------- *)
\* handleUpload(uploadableFile): status connecting, then `new WebSocket`
\* (which throws on an invalid URL), then the ws field; the handlers it
\* installs are the transport actions below.  Returns the new state and
\* the new transports.
\* A faulty variant: the new WebSocket is not recorded in the entry.
handleUpload_noHandle(s, ss, id, size) ==
  LET s1 == setFileState(s, id, [status |-> "connecting", progress |-> 0, error |-> "none"])
  IN IF urlOk
       THEN [store |-> s1, socks |-> Append(ss, NewSock(id, size))]
       ELSE [store |-> setFileState(s1, id, [status |-> "error", error |-> "Invalid URL"]),
             socks |-> ss]

\* A faulty variant: a restart resumes at the offset its last transport reached.
handleUpload_resume(s, ss, id, size) ==
  LET s1 == setFileState(s, id, [status |-> "connecting", progress |-> 0, error |-> "none"])
      last == Entry(s, id).ws
  IN IF urlOk
       THEN [store |-> setFileState(s1, id, [ws |-> Len(ss) + 1]),
             socks |-> Append(ss, [NewSock(id, size) EXCEPT
                                     !.offset = IF last \in 1..Len(ss) THEN ss[last].offset ELSE 0])]
       ELSE [store |-> setFileState(s1, id, [status |-> "error", error |-> "Invalid URL"]),
             socks |-> ss]

handleUpload(s, ss, id, size) ==
  LET s1 == setFileState(s, id, [status |-> "connecting", progress |-> 0, error |-> "none"])
  IN IF urlOk
       THEN [store |-> setFileState(s1, id, [ws |-> Len(ss) + 1]),
             socks |-> Append(ss, NewSock(id, size))]
       ELSE [store |-> setFileState(s1, id, [status |-> "error", error |-> "Invalid URL"]),
             socks |-> ss]

RECURSIVE StartAll(_, _, _)
\* filesToStart.forEach(file => handleUpload(file))
StartAll(todo, s, ss) ==
  IF todo = <<>> THEN [store |-> s, socks |-> ss]
  ELSE LET r == handleUpload(s, ss, Head(todo).id, Head(todo).size)
       IN StartAll(Tail(todo), r.store, r.socks)

\* A faulty variant: the slice leaves one free slot unused.
filesToStart_spareSlot(f) ==
  IF activeUploads(f) < MAX_CONCURRENT_UPLOADS /\ Len(pendingFiles(f)) > 0
    THEN SubSeq(pendingFiles(f), 1, Min(Len(pendingFiles(f)), MAX_CONCURRENT_UPLOADS - activeUploads(f) - 1))
    ELSE <<>>

\* A faulty variant: the slice takes one entry too many.
filesToStart_oneMore(f) ==
  IF activeUploads(f) < MAX_CONCURRENT_UPLOADS /\ Len(pendingFiles(f)) > 0
    THEN SubSeq(pendingFiles(f), 1, Min(Len(pendingFiles(f)), MAX_CONCURRENT_UPLOADS - activeUploads(f) + 1))
    ELSE <<>>

\* A faulty variant: the slice is taken from the back of the pending list.
filesToStart_fromBack(f) ==
  IF activeUploads(f) < MAX_CONCURRENT_UPLOADS /\ Len(pendingFiles(f)) > 0
    THEN SubSeq(pendingFiles(f),
                Len(pendingFiles(f)) - Min(Len(pendingFiles(f)), MAX_CONCURRENT_UPLOADS - activeUploads(f)) + 1,
                Len(pendingFiles(f)))
    ELSE <<>>

\* The entries the scheduler effect starts when it runs on the rendered
\* value f.
filesToStart(f) ==
  IF activeUploads(f) < MAX_CONCURRENT_UPLOADS /\ Len(pendingFiles(f)) > 0
    THEN SubSeq(pendingFiles(f), 1, Min(Len(pendingFiles(f)), MAX_CONCURRENT_UPLOADS - activeUploads(f)))
    ELSE <<>>

\* The scheduler useEffect, run on the rendered value f.
Effect(f, s, ss) ==
  LET r == StartAll(filesToStart(f), s, ss)
  IN [store |-> r.store, socks |-> r.socks, n |-> Len(filesToStart(f))]

(* ---------------------------- rendering -------------------------------- *)
\* The render React schedules for updates queued outside a DOM event.
Render ==
  /\ dirty
  /\ ~effectDue
  /\ files' = store
  /\ dirty' = FALSE
  /\ effectDue' = TRUE
  /\ UNCHANGED <<store, socks, urlOk, nextId, filesLeft, cmdsLeft, evLeft, liveLeft, hist, page, auth>>

\* The passive effect of that render.
RunEffect ==
  /\ effectDue
  /\ LET r == Effect(files, store, socks)
     IN /\ store' = r.store
        /\ socks' = r.socks
        /\ dirty' = (dirty \/ r.n > 0)
  /\ effectDue' = FALSE
  /\ UNCHANGED <<files, urlOk, nextId, filesLeft, cmdsLeft, evLeft, liveLeft, hist, page, auth>>

\* The synchronous render of a user command whose handler left the state
\* s1 and the transports ss1: flush the pending effect, render, run the
\* effect of the new render.
SyncRender(s1, ss1) ==
  LET r1 == IF effectDue THEN Effect(files, s1, ss1) ELSE [store |-> s1, socks |-> ss1, n |-> 0]
      r2 == Effect(r1.store, r1.store, r1.socks)
  IN /\ files' = r1.store
     /\ store' = r2.store
     /\ socks' = r2.socks
     /\ dirty' = (r2.n > 0)
     /\ effectDue' = FALSE

(* ---------------------------- user commands ---------------------------- *)
RECURSIVE Uniform(_, _)
Uniform(n, size) == IF n = 0 THEN <<>> ELSE <<size>> \o Uniform(n - 1, size)

\* The file lists of a selection event: one file of any size, or several
\* files of 1 MiB, up to three or enough to reach the concurrency cap.
SelectionLists(n) ==
  {<<a>> : a \in IF n > 0 THEN FileSizes ELSE {}}
    \cup {Uniform(k, MiB) : k \in {j \in 2..n : j <= 3 \/ j >= MAX_CONCURRENT_UPLOADS}}

newUploads(list, first) == [i \in 1..Len(list) |-> NewUpload(first + i - 1, list[i])]

handleFileSelect(list) ==
  /\ cmdsLeft > 0
  /\ list \in SelectionLists(filesLeft)
  /\ SyncRender(store \o newUploads(list, nextId), socks)
  /\ nextId' = nextId + Len(list)
  /\ filesLeft' = filesLeft - Len(list)
  /\ cmdsLeft' = cmdsLeft - 1
  /\ UNCHANGED <<urlOk, evLeft, liveLeft, hist, page, auth>>

Shown(id, statuses) == \E i \in 1..Len(files) : files[i].id = id /\ files[i].status \in statuses

\* A faulty variant: the filter keeps an entry that is success or error.
Without_keepTerminal(s, id) == SelectSeq(s, LAMBDA f : f.id # id \/ f.status \in Terminal)

Without(s, id) == SelectSeq(s, LAMBDA f : f.id # id)

\* cancelUpload(id), offered on the entries rendered as processing.
cancelUpload(id) ==
  /\ cmdsLeft > 0
  /\ Shown(id, UploadStatus \ Terminal)
  /\ SyncRender(Without(store, id),
                IF id \in Ids(store) THEN CloseAt(socks, Entry(store, id).ws) ELSE socks)
  /\ cmdsLeft' = cmdsLeft - 1
  /\ hist' = [hist EXCEPT !.cancelled = @ \cup {id},
                           !.late = @ \cup {j \in {id} : j \in Ids(store) /\ Entry(store, j).status \in Terminal}]
  /\ UNCHANGED <<urlOk, nextId, filesLeft, evLeft, liveLeft, page, auth>>

\* removeFile(id), offered on the entries rendered as error or success.
removeFile(id) ==
  /\ cmdsLeft > 0
  /\ Shown(id, Terminal)
  /\ SyncRender(Without(store, id), socks)
  /\ cmdsLeft' = cmdsLeft - 1
  /\ UNCHANGED <<urlOk, nextId, filesLeft, evLeft, liveLeft, hist, page, auth>>

\* onRetry: handleUpload({...upload, status: 'pending'}), offered on the
\* entries rendered as error.
onRetry(id) ==
  /\ cmdsLeft > 0
  /\ Shown(id, {"error"})
  /\ LET r == handleUpload(store, socks, id, Entry(files, id).size)
     IN SyncRender(r.store, r.socks)
  /\ cmdsLeft' = cmdsLeft - 1
  /\ hist' = [hist EXCEPT !.retried = TRUE]
  /\ UNCHANGED <<urlOk, nextId, filesLeft, evLeft, liveLeft, page, auth>>

\* clearAll, offered when an entry is rendered as success; it writes the
\* rendered value, filtered.
clearAll ==
  /\ cmdsLeft > 0
  /\ \E i \in 1..Len(files) : files[i].status = "success"
  /\ SyncRender(SelectSeq(files, LAMBDA f : f.status \notin Terminal), socks)
  /\ cmdsLeft' = cmdsLeft - 1
  /\ UNCHANGED <<urlOk, nextId, filesLeft, evLeft, liveLeft, hist, page, auth>>

(* ---------------------------- transport events ------------------------- *)
Live(t) == t \in 1..Len(socks) /\ evLeft > 0 /\ (socks[t].live \/ liveLeft > 0)

\* What every callback of transport t does to the budgets; the callback
\* itself gives socks[t] its new value k.
Event(t, k) ==
  /\ socks' = [socks EXCEPT ![t] = [k EXCEPT !.live = TRUE]]
  /\ evLeft' = evLeft - 1
  /\ liveLeft' = IF socks[t].live THEN liveLeft ELSE liveLeft - 1
  /\ UNCHANGED <<files, effectDue, urlOk, nextId, filesLeft, cmdsLeft, hist, page, auth>>

\* readNextChunk(): nothing unless the socket is open; readAsArrayBuffer
\* throws when the reader is already loading, which leaves it loading.
readNextChunk(k) ==
  IF k.rs # "OPEN" \/ k.reading THEN k ELSE [k EXCEPT !.reading = TRUE, !.reads = @ + 1]

\* A faulty variant: the percentage is truncated, not rounded.
Progress_floor(offset, size) == IF size = 0 THEN NaN ELSE (100 * offset) \div size

\* A faulty variant: the bar is full as soon as anything has been sent.
Progress_full(offset, size) == IF size = 0 THEN NaN ELSE IF offset > 0 THEN 100 ELSE 0

\* Math.round((offset / size) * 100); 0 / 0 is NaN.
Progress(offset, size) == IF size = 0 THEN NaN ELSE (200 * offset + size) \div (2 * size)

\* ws.onopen
WsOpen(t) ==
  /\ Live(t)
  /\ socks[t].rs = "CONNECTING"
  /\ UNCHANGED <<store, dirty>>
  /\ Event(t, [socks[t] EXCEPT !.rs = "OPEN"])

\* The object update and the transport calls of each branch of ws.onmessage.
MessageChanges(m) ==
  CASE m = "challenge" -> [status |-> "authenticating"]
    [] m = "auth_ok" -> [status |-> "sending_metadata"]
    [] m = "header_ok" -> [status |-> "uploading"]
    [] m = "upload_ok" -> [status |-> "success", progress |-> 100]
    [] m = "auth_error" -> [status |-> "error", error |-> "Authentication failed"]
    [] m = "header_error" -> [status |-> "error", error |-> "Invalid header"]
    [] m = "upload_error" -> [status |-> "error", error |-> "Upload failed"]
    [] m = "error" -> [status |-> "error", error |-> "Server error"]

\* Message m comes in its turn on transport k: the challenge first, auth_ok
\* after the auth response, header_ok after the header, upload_ok after the
\* last chunk; a rejection may come at any point.
InTurn(k, m) ==
  CASE m = "challenge" -> k.rcvd = {}
    [] m = "auth_ok" -> k.rcvd = {"challenge"} /\ k.auths = 1
    [] m = "header_ok" -> k.rcvd = {"challenge", "auth_ok"}
    [] m = "upload_ok" -> k.rcvd = {"challenge", "auth_ok", "header_ok"} /\ k.chunks > 0 /\ ~k.reading
    [] m = "other" -> FALSE
    [] OTHER -> TRUE

\* A faulty variant: the auth_error branch leaves the transport open.
MessageSock_authErrorLeftOpen(k, m) ==
  LET k1 == [k EXCEPT !.rcvd = @ \cup ({m} \cap Expected), !.inOrder = @ /\ InTurn(k, m)]
  IN CASE m = "challenge" -> [k1 EXCEPT !.hashing = @ + 1]
       [] m = "auth_ok" -> [k1 EXCEPT !.headers = @ + 1]
       [] m = "header_ok" -> readNextChunk(k1)
       [] m \in {"upload_ok", "header_error", "upload_error", "error"} -> wsClose(k1)
       [] OTHER -> k1

MessageSock(k, m) ==
  LET k1 == [k EXCEPT !.rcvd = @ \cup ({m} \cap Expected), !.inOrder = @ /\ InTurn(k, m)]
  IN CASE m = "challenge" -> [k1 EXCEPT !.hashing = @ + 1]
       [] m = "auth_ok" -> [k1 EXCEPT !.headers = @ + 1]
       [] m = "header_ok" -> readNextChunk(k1)
       [] m \in {"upload_ok", "auth_error", "header_error", "upload_error", "error"} -> wsClose(k1)
       [] OTHER -> k1

\* ws.onmessage, up to its first await.
WsMessage(t, m) ==
  /\ Live(t)
  /\ socks[t].rs = "OPEN"
  /\ IF m = "other"
       THEN UNCHANGED <<store, dirty>>
       ELSE /\ store' = setFileState(store, socks[t].id, MessageChanges(m))
            /\ dirty' = TRUE
  /\ Event(t, MessageSock(socks[t], m))

SendAuth(k) ==
  IF k.rs = "OPEN" THEN [k EXCEPT !.hashing = @ - 1, !.auths = @ + 1]
                   ELSE [k EXCEPT !.hashing = @ - 1]

\* The continuation of the challenge branch after `await sha256`:
\* ws.send(auth), which a socket that is no longer open discards.
HashDone(t) ==
  /\ Live(t)
  /\ socks[t].hashing > 0
  /\ UNCHANGED <<store, dirty>>
  /\ Event(t, SendAuth(socks[t]))

ChunkLen(k) == IF k.offset >= k.size THEN 0 ELSE Min(CHUNK_SIZE, k.size - k.offset)

OnLoadSock(k) ==
  LET k1 == [k EXCEPT !.reading = FALSE, !.chunks = @ + 1, !.offset = @ + ChunkLen(k),
                      !.lastAt = k.offset, !.rising = @ /\ k.offset > k.lastAt]
  IN IF k1.offset < k1.size THEN readNextChunk(k1) ELSE k1

\* The update fileReader.onload makes once the chunk is sent and the
\* transport locals are k.
\* A faulty variant: the client declares success itself once the last chunk is sent.
LoadChanges_selfSuccess(k) ==
  IF k.offset >= k.size
    THEN [progress |-> Progress(k.offset, k.size), status |-> "success"]
    ELSE [progress |-> Progress(k.offset, k.size)]

LoadChanges(k) == [progress |-> Progress(k.offset, k.size)]

\* fileReader.onload
ReaderLoad(t) ==
  /\ Live(t)
  /\ socks[t].reading
  /\ IF socks[t].rs = "OPEN"
       THEN /\ store' = setFileState(store, socks[t].id, LoadChanges(OnLoadSock(socks[t])))
            /\ dirty' = TRUE
            /\ Event(t, OnLoadSock(socks[t]))
       ELSE /\ UNCHANGED <<store, dirty>>
            /\ Event(t, [socks[t] EXCEPT !.reading = FALSE])

\* fileReader.onerror
ReaderError(t) ==
  /\ Live(t)
  /\ socks[t].reading
  /\ store' = setFileState(store, socks[t].id, [status |-> "error", error |-> "File read error"])
  /\ dirty' = TRUE
  /\ Event(t, wsClose([socks[t] EXCEPT !.reading = FALSE]))

\* The connection fails: ws.onerror, then ws.onclose.
WsFail(t) ==
  /\ Live(t)
  /\ socks[t].rs \in {"CONNECTING", "OPEN", "CLOSING"}
  /\ store' = setFileStateOnClose(
                setFileState(store, socks[t].id, [status |-> "error", error |-> "Connection failed"]),
                socks[t].id)
  /\ dirty' = TRUE
  /\ Event(t, [socks[t] EXCEPT !.rs = "CLOSED"])

\* The connection closes without an error event: ws.onclose.
WsClosed(t) ==
  /\ Live(t)
  /\ socks[t].rs \in {"OPEN", "CLOSING"}
  /\ ~socks[t].aborted
  /\ store' = setFileStateOnClose(store, socks[t].id)
  /\ dirty' = TRUE
  /\ Event(t, [socks[t] EXCEPT !.rs = "CLOSED"])

(* ---------------------------- configuration ---------------------------- *)
\* The Home page (src/src/app/page.tsx) and its setup form
\* (src/src/components/config-setup.tsx).  `page` holds the React state of
\* Home (isClient, config, isUrlConfigured, theme), the toast it shows, the
\* localStorage items apiToken / backendUrl / theme (storedTheme), the
\* system colour preference, the token and backendUrl parameters of the
\* address, and two history fields: `saved`, the configuration the form
\* stored last and nothing has overwritten since, and `last`, the last
\* operation.
\* null, as returned by URLSearchParams.get and localStorage.getItem.
Null == "<null>"

\* config === null
NoConfig == [token |-> Null, backendUrl |-> Null]

\* Texts a user can type into the form or put into the address.
TokenTexts == {"", "in-memory-token"}
UrlTexts == {"ws://host/ws", "wss://host/ws", "http://host/ws", "ws://"}

\* JavaScript truthiness of a string or null.
Truthy(x) == x # Null /\ x # ""

\* z.string().url(): the text parses as a URL (ws:// has no host).
IsUrl(u) == u \in {"ws://host/ws", "wss://host/ws", "http://host/ws"}

\* url.startsWith("ws://") || url.startsWith("wss://")
StartsWithWs(u) == u \in {"ws://host/ws", "wss://host/ws", "ws://"}

\* formSchema: the values the setup form accepts.
formSchema(values) ==
  /\ values.token # Null
  /\ IsUrl(values.backendUrl)
  /\ StartsWithWs(values.backendUrl)

\* The mount effect of Home.
HomeEffect(p) ==
  LET initialTheme == IF Truthy(p.storedTheme) THEN p.storedTheme
                      ELSE IF p.prefersDark THEN "dark" ELSE "light"
      p1 == [p EXCEPT !.theme = initialTheme, !.isClient = TRUE]
  IN IF Truthy(p.urlToken) /\ Truthy(p.urlBackend)
       THEN [p1 EXCEPT !.config = [token |-> p.urlToken, backendUrl |-> p.urlBackend],
                       !.isUrlConfigured = TRUE]
       ELSE IF Truthy(p.apiToken) /\ Truthy(p.backendUrl)
              THEN [p1 EXCEPT !.config = [token |-> p.apiToken, backendUrl |-> p.backendUrl]]
              ELSE p1

\* handleThemeChange(isDark); full: localStorage.setItem throws.
handleThemeChange(p, isDark, full) ==
  LET newTheme == IF isDark THEN "dark" ELSE "light"
  IN IF full THEN [p EXCEPT !.theme = newTheme]
             ELSE [p EXCEPT !.theme = newTheme, !.storedTheme = newTheme]

\* handleConfigured(newConfig); thrownAt says which localStorage.setItem
\* throws (0: none), which skips the rest of the try block.
handleConfigured(p, newConfig, thrownAt) ==
  CASE thrownAt = 1 -> p
    [] thrownAt = 2 -> [p EXCEPT !.apiToken = newConfig.token]
    [] OTHER -> [p EXCEPT !.apiToken = newConfig.token,
                          !.backendUrl = newConfig.backendUrl,
                          !.config = newConfig]

\* A faulty variant: the reset does not test the lock.
handleResetConfig_unlocked(p) ==
  [p EXCEPT !.apiToken = Null, !.backendUrl = Null, !.config = NoConfig]

\* handleResetConfig()
handleResetConfig(p) ==
  IF p.isUrlConfigured
    THEN [p EXCEPT !.toast = "Configuration Locked"]
    ELSE [p EXCEPT !.apiToken = Null, !.backendUrl = Null, !.config = NoConfig]

\* A page as a new browser profile loads it, with the given parameters.
NewPage(ut, ub, dark) ==
  [isClient |-> FALSE, config |-> NoConfig, isUrlConfigured |-> FALSE, theme |-> "dark",
   toast |-> "none", apiToken |-> Null, backendUrl |-> Null, storedTheme |-> Null,
   prefersDark |-> dark, urlToken |-> ut, urlBackend |-> ub, saved |-> NoConfig, last |-> "open"]

\* The page around a mounted FileUploader: Home has a configuration, from
\* the form when `new WebSocket` accepts the URL, and from the address
\* (which nothing validates) when it does not.
ConfiguredPage(ok) ==
  IF ok
    THEN [HomeEffect([NewPage(Null, Null, TRUE) EXCEPT !.apiToken = "in-memory-token",
                                                       !.backendUrl = "ws://host/ws"])
            EXCEPT !.last = "load"]
    ELSE [HomeEffect(NewPage("in-memory-token", "ws://", TRUE)) EXCEPT !.last = "load"]

uploader == <<store, files, dirty, effectDue, socks, urlOk, nextId, filesLeft, cmdsLeft, evLeft, liveLeft, hist>>

\* The page mounts: the effect runs once.
Mount ==
  /\ ~page.isClient
  /\ page' = [HomeEffect(page) EXCEPT !.last = "load"]
  /\ UNCHANGED <<uploader, auth>>

\* The user submits the setup form, shown while there is no configuration.
SubmitForm(values, thrownAt) ==
  /\ page.isClient
  /\ page.config = NoConfig
  /\ formSchema(values)
  /\ page' = [handleConfigured(page, values, thrownAt)
                EXCEPT !.saved = IF thrownAt = 0 THEN values
                                 ELSE IF thrownAt = 2 THEN NoConfig ELSE @,
                       !.last = "save"]
  /\ UNCHANGED <<uploader, auth>>

\* The user presses the reset button, shown while there is a configuration.
ClickReset ==
  /\ page.isClient
  /\ page.config # NoConfig
  /\ page' = [handleResetConfig(page)
                EXCEPT !.saved = IF page.isUrlConfigured THEN @ ELSE NoConfig,
                       !.last = "reset"]
  /\ UNCHANGED <<uploader, auth>>

\* The user flips the theme switch.
ToggleTheme(isDark, full) ==
  /\ page.isClient
  /\ page' = [handleThemeChange(page, isDark, full) EXCEPT !.last = "theme"]
  /\ UNCHANGED <<uploader, auth>>

\* The user loads the page again, at an address with the given parameters:
\* the React state starts over, localStorage stays.
Navigate(ut, ub) ==
  /\ page.isClient
  /\ page' = [page EXCEPT !.isClient = FALSE, !.config = NoConfig, !.isUrlConfigured = FALSE,
                          !.theme = "dark", !.toast = "none",
                          !.urlToken = ut, !.urlBackend = ub, !.last = "open"]
  /\ UNCHANGED <<uploader, auth>>

(* ---------------------------- wire ------------------------------------- *)
\* What one transport of handleUpload puts on the wire.  Texts are
\* sequences of Unicode code points, binary data sequences of bytes.  A
\* 32-bit word is a pair <<high, low>> of 16-bit halves.
\* The most server frames a followed conversation takes.
WireFrames == 3

\* Code points of the characters the texts below are written with.
Code ==
  ("0" :> 48) @@ ("1" :> 49) @@ ("2" :> 50) @@ ("3" :> 51) @@ ("4" :> 52) @@ ("5" :> 53) @@
  ("6" :> 54) @@ ("7" :> 55) @@ ("8" :> 56) @@ ("9" :> 57) @@ ("a" :> 97) @@ ("b" :> 98) @@
  ("c" :> 99) @@ ("d" :> 100) @@ ("e" :> 101) @@ ("f" :> 102) @@ ("g" :> 103) @@ ("h" :> 104) @@
  ("i" :> 105) @@ ("j" :> 106) @@ ("k" :> 107) @@ ("l" :> 108) @@ ("m" :> 109) @@ ("n" :> 110) @@
  ("o" :> 111) @@ ("p" :> 112) @@ ("q" :> 113) @@ ("r" :> 114) @@ ("s" :> 115) @@ ("t" :> 116) @@
  ("u" :> 117) @@ ("v" :> 118) @@ ("w" :> 119) @@ ("x" :> 120) @@ ("y" :> 121) @@ ("z" :> 122) @@
  (":" :> 58) @@ ("-" :> 45) @@ ("." :> 46)

Ascii(s) == [i \in 1..Len(s) |-> Code[s[i]]]

\* Challenge texts a server sends (abc123, and e with an acute accent),
\* tokens of a configuration, and the name of the selected file.
Challenges == {Ascii(<<"a", "b", "c", "1", "2", "3">>), <<233>>}
Tokens == {Ascii(<<"i", "n", "-", "m", "e", "m", "o", "r", "y", "-", "t", "o", "k", "e", "n">>), <<>>}
WireName == Ascii(<<"a", ".", "t", "x", "t">>)
WireSize == MiB

\* TextEncoder.encode: the UTF-8 bytes of one code point, and of a text.
Utf8(cp) ==
  IF cp < 128 THEN <<cp>>
  ELSE IF cp < 2048 THEN <<192 + cp \div 64, 128 + (cp % 64)>>
  ELSE IF cp < 65536 THEN <<224 + cp \div 4096, 128 + ((cp \div 64) % 64), 128 + (cp % 64)>>
  ELSE <<240 + cp \div 262144, 128 + ((cp \div 4096) % 64), 128 + ((cp \div 64) % 64), 128 + (cp % 64)>>

RECURSIVE encode(_)
encode(text) == IF text = <<>> THEN <<>> ELSE Utf8(Head(text)) \o encode(Tail(text))

\* Exclusive or and conjunction of two numbers of n bits, bit by bit; of
\* two 4-bit digits, as tables; and of two 16-bit halves, digit by digit.
RECURSIVE XorBits(_, _, _)
XorBits(a, b, n) == IF n = 0 THEN 0 ELSE ((a + b) % 2) + 2 * XorBits(a \div 2, b \div 2, n - 1)

RECURSIVE AndBits(_, _, _)
AndBits(a, b, n) == IF n = 0 THEN 0 ELSE (a % 2) * (b % 2) + 2 * AndBits(a \div 2, b \div 2, n - 1)

XorDigit == [a \in 0..15 |-> [b \in 0..15 |-> XorBits(a, b, 4)]]
AndDigit == [a \in 0..15 |-> [b \in 0..15 |-> AndBits(a, b, 4)]]

Xor16(a, b) ==
  XorDigit[a % 16][b % 16] + 16 * XorDigit[(a \div 16) % 16][(b \div 16) % 16]
    + 256 * XorDigit[(a \div 256) % 16][(b \div 256) % 16] + 4096 * XorDigit[a \div 4096][b \div 4096]
And16(a, b) ==
  AndDigit[a % 16][b % 16] + 16 * AndDigit[(a \div 16) % 16][(b \div 16) % 16]
    + 256 * AndDigit[(a \div 256) % 16][(b \div 256) % 16] + 4096 * AndDigit[a \div 4096][b \div 4096]

Pow2(n) == 2 ^ n

Xor(x, y) == <<Xor16(x[1], y[1]), Xor16(x[2], y[2])>>
And(x, y) == <<And16(x[1], y[1]), And16(x[2], y[2])>>
Not(x) == <<65535 - x[1], 65535 - x[2]>>
Add(x, y) == <<(x[1] + y[1] + (x[2] + y[2]) \div 65536) % 65536, (x[2] + y[2]) % 65536>>

\* Shift and rotate right by n bits.
Shr(x, n) ==
  IF n < 16 THEN <<x[1] \div Pow2(n), x[2] \div Pow2(n) + (x[1] % Pow2(n)) * Pow2(16 - n)>>
            ELSE <<0, x[1] \div Pow2(n - 16)>>
Rotr(x, n) ==
  IF n < 16 THEN <<x[1] \div Pow2(n) + (x[2] % Pow2(n)) * Pow2(16 - n),
                   x[2] \div Pow2(n) + (x[1] % Pow2(n)) * Pow2(16 - n)>>
            ELSE <<x[2] \div Pow2(n - 16) + (x[1] % Pow2(n - 16)) * Pow2(32 - n),
                   x[1] \div Pow2(n - 16) + (x[2] % Pow2(n - 16)) * Pow2(32 - n)>>

\* The functions and tables of SHA-256 (FIPS 180-4), which
\* crypto.subtle.digest('SHA-256', ...) computes.
Ch(x, y, z) == Xor(And(x, y), And(Not(x), z))
Maj(x, y, z) == Xor(Xor(And(x, y), And(x, z)), And(y, z))
BigSigma0(x) == Xor(Xor(Rotr(x, 2), Rotr(x, 13)), Rotr(x, 22))
BigSigma1(x) == Xor(Xor(Rotr(x, 6), Rotr(x, 11)), Rotr(x, 25))
SmallSigma0(x) == Xor(Xor(Rotr(x, 7), Rotr(x, 18)), Shr(x, 3))
SmallSigma1(x) == Xor(Xor(Rotr(x, 17), Rotr(x, 19)), Shr(x, 10))

K256 ==
  <<<<\h428a, \h2f98>>, <<\h7137, \h4491>>, <<\hb5c0, \hfbcf>>, <<\he9b5, \hdba5>>,
    <<\h3956, \hc25b>>, <<\h59f1, \h11f1>>, <<\h923f, \h82a4>>, <<\hab1c, \h5ed5>>,
    <<\hd807, \haa98>>, <<\h1283, \h5b01>>, <<\h2431, \h85be>>, <<\h550c, \h7dc3>>,
    <<\h72be, \h5d74>>, <<\h80de, \hb1fe>>, <<\h9bdc, \h06a7>>, <<\hc19b, \hf174>>,
    <<\he49b, \h69c1>>, <<\hefbe, \h4786>>, <<\h0fc1, \h9dc6>>, <<\h240c, \ha1cc>>,
    <<\h2de9, \h2c6f>>, <<\h4a74, \h84aa>>, <<\h5cb0, \ha9dc>>, <<\h76f9, \h88da>>,
    <<\h983e, \h5152>>, <<\ha831, \hc66d>>, <<\hb003, \h27c8>>, <<\hbf59, \h7fc7>>,
    <<\hc6e0, \h0bf3>>, <<\hd5a7, \h9147>>, <<\h06ca, \h6351>>, <<\h1429, \h2967>>,
    <<\h27b7, \h0a85>>, <<\h2e1b, \h2138>>, <<\h4d2c, \h6dfc>>, <<\h5338, \h0d13>>,
    <<\h650a, \h7354>>, <<\h766a, \h0abb>>, <<\h81c2, \hc92e>>, <<\h9272, \h2c85>>,
    <<\ha2bf, \he8a1>>, <<\ha81a, \h664b>>, <<\hc24b, \h8b70>>, <<\hc76c, \h51a3>>,
    <<\hd192, \he819>>, <<\hd699, \h0624>>, <<\hf40e, \h3585>>, <<\h106a, \ha070>>,
    <<\h19a4, \hc116>>, <<\h1e37, \h6c08>>, <<\h2748, \h774c>>, <<\h34b0, \hbcb5>>,
    <<\h391c, \h0cb3>>, <<\h4ed8, \haa4a>>, <<\h5b9c, \hca4f>>, <<\h682e, \h6ff3>>,
    <<\h748f, \h82ee>>, <<\h78a5, \h636f>>, <<\h84c8, \h7814>>, <<\h8cc7, \h0208>>,
    <<\h90be, \hfffa>>, <<\ha450, \h6ceb>>, <<\hbef9, \ha3f7>>, <<\hc671, \h78f2>>>>

H256 ==
  <<<<\h6a09, \he667>>, <<\hbb67, \hae85>>, <<\h3c6e, \hf372>>, <<\ha54f, \hf53a>>,
    <<\h510e, \h527f>>, <<\h9b05, \h688c>>, <<\h1f83, \hd9ab>>, <<\h5be0, \hcd19>>>>

\* The message padded to whole 64-byte blocks: a 1 bit, zeros, and the
\* length in bits as a 64-bit big-endian number.
Zeros(n) == [i \in 1..n |-> 0]
Padded(bytes) ==
  LET n == Len(bytes)
      bits == 8 * n
  IN bytes \o <<128>> \o Zeros((119 - (n % 64)) % 64)
       \o <<0, 0, 0, 0, bits \div 16777216, (bits \div 65536) % 256, (bits \div 256) % 256, bits % 256>>

\* Big-endian words of a byte sequence, and back.
ToWords(bytes) ==
  [j \in 1..(Len(bytes) \div 4) |->
     <<bytes[4 * j - 3] * 256 + bytes[4 * j - 2], bytes[4 * j - 1] * 256 + bytes[4 * j]>>]
ToBytes(words) ==
  [i \in 1..(4 * Len(words)) |->
     LET x == words[(i + 3) \div 4]
     IN CASE i % 4 = 1 -> x[1] \div 256
          [] i % 4 = 2 -> x[1] % 256
          [] i % 4 = 3 -> x[2] \div 256
          [] OTHER -> x[2] % 256]

\* b.toString(16), padStart(2, '0'), and the map / join over the digest.
HexDigits == Ascii(<<"0", "1", "2", "3", "4", "5", "6", "7", "8", "9", "a", "b", "c", "d", "e", "f">>)
toString16(b) ==
  IF b < 16 THEN <<HexDigits[b + 1]>> ELSE <<HexDigits[b \div 16 + 1], HexDigits[(b % 16) + 1]>>
padStart2(s) == IF Len(s) < 2 THEN Ascii(<<"0">>) \o s ELSE s

\* A faulty variant: the byte is not padded to two digits.
HexByte_noPad(b) == toString16(b)

HexByte(b) == padStart2(toString16(b))

RECURSIVE hashHex(_)
hashHex(bytes) == IF bytes = <<>> THEN <<>> ELSE HexByte(Head(bytes)) \o hashHex(Tail(bytes))

\* One call of sha256(message), followed step by step: the text, the
\* encoded bytes, the padded words, the block and round reached, the
\* message schedule w, the working registers reg, the hash value h, and the
\* hex text the promise resolves with.  `challenge` is the challenge the
\* call answers.
NewJob(challenge, text) ==
  [challenge |-> challenge, text |-> text, pc |-> "queued", bytes |-> <<>>, words |-> <<>>,
   b |-> 0, t |-> 0, w |-> <<>>, reg |-> <<>>, h |-> <<>>, hex |-> <<>>]

JobEncode(j) == [j EXCEPT !.pc = "encoded", !.bytes = encode(j.text)]

JobPad(j) ==
  LET words == ToWords(Padded(j.bytes))
  IN [j EXCEPT !.pc = "rounds", !.bytes = <<>>, !.words = words, !.b = 0, !.t = 0,
               !.w = SubSeq(words, 1, 16), !.reg = H256, !.h = H256]

\* Round t of the compression function (t counts from 0).
JobRound(j) ==
  LET t == j.t
      w == IF t < 16 THEN j.w
           ELSE Append(j.w, Add(Add(SmallSigma1(j.w[t - 1]), j.w[t - 6]),
                                Add(SmallSigma0(j.w[t - 14]), j.w[t - 15])))
      r == j.reg
      t1 == Add(Add(Add(r[8], BigSigma1(r[5])), Add(Ch(r[5], r[6], r[7]), K256[t + 1])), w[t + 1])
      t2 == Add(BigSigma0(r[1]), Maj(r[1], r[2], r[3]))
  IN [j EXCEPT !.t = t + 1, !.w = w,
               !.reg = <<Add(t1, t2), r[1], r[2], r[3], Add(r[4], t1), r[5], r[6], r[7]>>]

\* The end of a block: the registers are added to the hash value, and the
\* next block, if any, begins.
JobFold(j) ==
  LET h == [i \in 1..8 |-> Add(j.h[i], j.reg[i])]
      b == j.b + 1
  IN IF 16 * b < Len(j.words)
       THEN [j EXCEPT !.b = b, !.t = 0, !.w = SubSeq(j.words, 16 * b + 1, 16 * b + 16),
                      !.reg = h, !.h = h]
       ELSE [j EXCEPT !.pc = "digest", !.b = b, !.t = 0, !.w = <<>>, !.words = <<>>,
                      !.reg = <<>>, !.h = h]

JobHex(j) == [j EXCEPT !.pc = "done", !.hex = hashHex(ToBytes(j.h)), !.h = <<>>]

\* Frames the client sends: the auth text, the binary header (name length
\* as a big-endian Int32, the name bytes, the size as a big-endian Int64),
\* and a chunk, given as the slice of the file it holds.
Int32BE(n) == <<n \div 16777216, (n \div 65536) % 256, (n \div 256) % 256, n % 256>>

AuthFrame(r, j) ==
  [kind |-> "text", data |-> Ascii(<<"a", "u", "t", "h", ":">>) \o j.hex, re |-> j.challenge]

\* A faulty variant: the header carries the token after the size.
HeaderFrame_withToken(r) ==
  [kind |-> "binary",
   data |-> Int32BE(Len(encode(r.name))) \o encode(r.name) \o Int32BE(0) \o Int32BE(r.k.size)
              \o encode(r.token),
   re |-> <<>>]

HeaderFrame(r) ==
  [kind |-> "binary",
   data |-> Int32BE(Len(encode(r.name))) \o encode(r.name) \o Int32BE(0) \o Int32BE(r.k.size),
   re |-> <<>>]

ChunkFrame(r) ==
  [kind |-> "slice", data |-> <<r.k.offset, r.k.offset + ChunkLen(r.k)>>, re |-> <<>>]

\* One run of the conversation: the token of its configuration, the file,
\* the transport and its locals (as in NewSock), the sha256 calls made, and
\* the frames sent so far.
NewRun(token, size) ==
  [token |-> token, name |-> WireName, k |-> [NewSock(1, size) EXCEPT !.rs = "OPEN"],
   jobs |-> <<>>, sent |-> <<>>]

\* ws.onmessage with the text of frame m; c is the text after challenge:.
DeliverRun(r, m, c) ==
  LET r1 == [r EXCEPT !.k = MessageSock(r.k, m)]
  IN CASE m = "challenge" ->
            [r1 EXCEPT !.jobs = Append(@, NewJob(c, c \o Ascii(<<":">>) \o r.token))]
       [] m = "auth_ok" -> [r1 EXCEPT !.sent = Append(@, HeaderFrame(r))]
       [] OTHER -> r1

\* The sha256 call the digest is working on: the first not yet finished.
Working(r) == {n \in 1..Len(r.jobs) : r.jobs[n].pc \notin {"done", "sent"}
                                      /\ \A n2 \in 1..(n - 1) : r.jobs[n2].pc \in {"done", "sent"}}
AtWork(r, pcs) == \E n \in Working(r) : r.jobs[n].pc \in pcs
InRound(r) == \E n \in Working(r) : r.jobs[n].pc = "rounds" /\ r.jobs[n].t < 64
AtFold(r) == \E n \in Working(r) : r.jobs[n].pc = "rounds" /\ r.jobs[n].t = 64

\* The next step of a sha256 call, and of the call the digest is working on.
JobStep(j) ==
  CASE j.pc = "queued" -> JobEncode(j)
    [] j.pc = "encoded" -> JobPad(j)
    [] j.pc = "rounds" /\ j.t < 64 -> JobRound(j)
    [] j.pc = "rounds" /\ j.t = 64 -> JobFold(j)
    [] j.pc = "digest" -> JobHex(j)
    [] OTHER -> j
Work(r) == [r EXCEPT !.jobs = [n \in 1..Len(@) |-> IF n \in Working(r) THEN JobStep(@[n]) ELSE @[n]]]

\* No digest is being computed.  How far a pending digest has got cannot be
\* observed, so an event that comes while one is pending is taken after its
\* computation and before its promise resolves.
Quiet(r) == \A n \in 1..Len(r.jobs) : r.jobs[n].pc \in {"done", "sent"}

\* The continuation after `await sha256(...)` of call n: ws.send(auth).
ResolveRun(r, n) ==
  LET r1 == [r EXCEPT !.k = SendAuth(r.k), !.jobs[n].pc = "sent"]
  IN IF r.k.rs = "OPEN" THEN [r1 EXCEPT !.sent = Append(@, AuthFrame(r, r.jobs[n]))] ELSE r1

\* fileReader.onload: the chunk is sent if the socket is open.
LoadRun(r) ==
  IF r.k.rs = "OPEN"
    THEN [r EXCEPT !.k = OnLoadSock(r.k), !.sent = Append(@, ChunkFrame(r))]
    ELSE [r EXCEPT !.k.reading = FALSE]

\* Two runs that differ only in the token take the same steps: a step that
\* at least one run can take (can[i]) gives the runs the values next[i].
Lockstep(can, next) ==
  /\ \E i \in 1..2 : can[i]
  /\ auth' = [auth EXCEPT !.runs = [i \in 1..2 |-> IF can[i] THEN next[i] ELSE @[i]]]
  /\ UNCHANGED <<uploader, page>>

\* The server sends a frame.
WireMessage(m, c) ==
  /\ auth.left > 0
  /\ \A i \in 1..2 : Quiet(auth.runs[i])
  /\ \E i \in 1..2 : auth.runs[i].k.rs = "OPEN"
  /\ auth' = [auth EXCEPT !.left = @ - 1,
                          !.runs = [i \in 1..2 |-> IF @[i].k.rs = "OPEN" THEN DeliverRun(@[i], m, c)
                                                                         ELSE @[i]]]
  /\ UNCHANGED <<uploader, page>>

\* The steps of the digest being computed.
WireEncode ==
  /\ \E i \in 1..2 : ~Quiet(auth.runs[i])
  /\ Lockstep([i \in 1..2 |-> AtWork(auth.runs[i], {"queued"})], [i \in 1..2 |-> Work(auth.runs[i])])

WirePad ==
  /\ \E i \in 1..2 : ~Quiet(auth.runs[i])
  /\ Lockstep([i \in 1..2 |-> AtWork(auth.runs[i], {"encoded"})], [i \in 1..2 |-> Work(auth.runs[i])])

WireRound ==
  /\ \E i \in 1..2 : ~Quiet(auth.runs[i])
  /\ Lockstep([i \in 1..2 |-> InRound(auth.runs[i])], [i \in 1..2 |-> Work(auth.runs[i])])

WireFold ==
  /\ \E i \in 1..2 : ~Quiet(auth.runs[i])
  /\ Lockstep([i \in 1..2 |-> AtFold(auth.runs[i])], [i \in 1..2 |-> Work(auth.runs[i])])

WireHex ==
  /\ \E i \in 1..2 : ~Quiet(auth.runs[i])
  /\ Lockstep([i \in 1..2 |-> AtWork(auth.runs[i], {"digest"})], [i \in 1..2 |-> Work(auth.runs[i])])

\* A sha256 promise resolves.
WireResolve(n) ==
  /\ \A i \in 1..2 : Quiet(auth.runs[i])
  /\ \A i \in 1..2 : n \in 1..Len(auth.runs[i].jobs)
  /\ Lockstep([i \in 1..2 |-> auth.runs[i].jobs[n].pc = "done"],
              [i \in 1..2 |-> ResolveRun(auth.runs[i], n)])

\* The reader has loaded the slice.
WireLoad ==
  /\ \A i \in 1..2 : Quiet(auth.runs[i])
  /\ Lockstep([i \in 1..2 |-> auth.runs[i].k.reading], [i \in 1..2 |-> LoadRun(auth.runs[i])])

\* The connection is lost.
WireLost ==
  /\ \A i \in 1..2 : Quiet(auth.runs[i])
  /\ Lockstep([i \in 1..2 |-> auth.runs[i].k.rs # "CLOSED"],
              [i \in 1..2 |-> [auth.runs[i] EXCEPT !.k.rs = "CLOSED"]])

\* No conversation is followed.
NoWire == [left |-> 0, runs |-> <<>>]

(* ---------------------------- specification ---------------------------- *)
\* The FileUploader as it mounts, with the given budgets.
InitFiles(nf, nc, ne, nl) ==
  /\ store = <<>>
  /\ files = <<>>
  /\ dirty = FALSE
  /\ effectDue = FALSE
  /\ socks = <<>>
  /\ urlOk \in BOOLEAN
  /\ nextId = 1
  /\ filesLeft = nf
  /\ cmdsLeft = nc
  /\ evLeft = ne
  /\ liveLeft = nl
  /\ hist = [retried |-> FALSE, cancelled |-> {}, late |-> {}]

InitWith(nf, nc, ne, nl) ==
  /\ InitFiles(nf, nc, ne, nl)
  /\ page = ConfiguredPage(urlOk)
  /\ auth = NoWire

\* The page as a browser loads it; no FileUploader is followed.
InitPage ==
  /\ InitFiles(0, 0, 0, 0)
  /\ page \in {NewPage(ut, ub, dark) : ut \in TokenTexts \cup {Null}, ub \in UrlTexts \cup {Null},
                                        dark \in BOOLEAN}
  /\ auth = NoWire

\* One transport of a mounted FileUploader, open, in two runs whose
\* configurations differ only in the token.
InitWire ==
  /\ InitFiles(0, 0, 0, 0)
  /\ urlOk
  /\ page = ConfiguredPage(urlOk)
  /\ auth \in {[left |-> WireFrames, runs |-> <<NewRun(t1, size), NewRun(t2, size)>>] :
                 t1 \in Tokens, t2 \in Tokens, size \in {WireSize}}
  /\ auth.runs[1].token # auth.runs[2].token

NextWire ==
  \/ \E m \in Messages, c \in Challenges : WireMessage(m, c)
  \/ WireEncode
  \/ WirePad
  \/ WireRound
  \/ WireFold
  \/ WireHex
  \/ \E n \in 1..WireFrames : WireResolve(n)
  \/ WireLoad
  \/ WireLost

NextPage ==
  \/ Mount
  \/ \E t \in TokenTexts \cup {Null}, u \in UrlTexts, thrownAt \in 0..2 :
       SubmitForm([token |-> t, backendUrl |-> u], thrownAt)
  \/ ClickReset
  \/ \E isDark, full \in BOOLEAN : ToggleTheme(isDark, full)
  \/ \E ut \in TokenTexts \cup {Null}, ub \in UrlTexts \cup {Null} : Navigate(ut, ub)

Init == InitWith(MaxFiles, MaxCmds, MaxEvents, MaxLive)

InitSched == InitWith(SchedFiles, SchedCmds, SchedEvents, SchedLive)

InitRace == InitWith(RaceFiles, RaceCmds, RaceEvents, RaceLive)

InitDeep == InitWith(DeepFiles, DeepCmds, DeepEvents, DeepLive)

InitRetry == InitWith(RetryFiles, RetryCmds, RetryEvents, RetryLive)

Next ==
  \/ \E list \in SelectionLists(filesLeft) : handleFileSelect(list)
  \/ \E id \in Ids(files) : cancelUpload(id)
  \/ \E id \in Ids(files) : removeFile(id)
  \/ \E id \in Ids(files) : onRetry(id)
  \/ clearAll
  \/ Render
  \/ RunEffect
  \/ \E t \in 1..Len(socks) : WsOpen(t)
  \/ \E t \in 1..Len(socks), m \in Messages : WsMessage(t, m)
  \/ \E t \in 1..Len(socks) : HashDone(t)
  \/ \E t \in 1..Len(socks) : ReaderLoad(t)
  \/ \E t \in 1..Len(socks) : ReaderError(t)
  \/ \E t \in 1..Len(socks) : WsFail(t)
  \/ \E t \in 1..Len(socks) : WsClosed(t)

Spec == Init /\ [][Next]_vars

SpecSched == InitSched /\ [][Next]_vars

SpecRace == InitRace /\ [][Next]_vars

SpecDeep == InitDeep /\ [][Next]_vars

SpecRetry == InitRetry /\ [][Next]_vars

SpecPage == InitPage /\ [][NextPage]_vars

SpecWire == InitWire /\ [][NextWire]_vars

(* ---------------------------- properties ------------------------------- *)
HasEntry(s, id) == id \in Ids(s)
StatusOf(s, id) == Entry(s, id).status
\* A step that is one callback of a transport, a reader or a promise.
CallbackStep == evLeft' = evLeft - 1
SocksOf(id) == {t \in 1..Len(socks) : socks[t].id = id}
\* The number of entries of s whose status is in the set S.
CountIn(s, S) == Cardinality({i \in 1..Len(s) : s[i].status \in S})

\* C1: as long as no retry command has been given, at most
\* MAX_CONCURRENT_UPLOADS (8) entries are connecting, authenticating,
\* sending_metadata or uploading, in the queued state and in the rendered
\* one, whatever selections, callbacks, cancellations and removals happened.
C1_ActiveAtMostMaxWithoutRetry ==
  ~hist.retried =>
    /\ CountIn(store, ActiveStatus) <= 8
    /\ CountIn(files, ActiveStatus) <= 8

\* C1 witness: the cap binds: 8 entries are active while another waits.
C1_Witness ==
  /\ ~hist.retried
  /\ CountIn(store, ActiveStatus) = 8
  /\ CountIn(store, {"pending"}) > 0

\* C2: at most 8 entries are active in every reachable state, retry
\* commands included.
C2_ActiveAtMostMax == CountIn(store, ActiveStatus) <= 8

\* C3: no callback (server message, transport error or close, file read)
\* changes the status of an entry that is success or error.
C3_TerminalAbsorbing ==
  [][CallbackStep =>
       \A i \in 1..Len(store) :
         store[i].status \in Terminal => store'[i].status = store[i].status]_vars

\* C4: an entry is success only if one of its own transports has received
\* upload_ok; in particular an entry whose last chunk is sent is not.
C4_SuccessOnlyOnUploadOk ==
  \A i \in 1..Len(store) :
    store[i].status = "success" =>
      \E t \in SocksOf(store[i].id) : "upload_ok" \in socks[t].rcvd

\* C4 witness: an entry is success.
C4_Witness == \E i \in 1..Len(store) : store[i].status = "success"

\* The edges of the transition graph.
Edge(a, b) ==
  \/ a = "pending" /\ b = "connecting"
  \/ a = "connecting" /\ b = "authenticating"
  \/ a = "authenticating" /\ b = "sending_metadata"
  \/ a = "sending_metadata" /\ b = "uploading"
  \/ a = "uploading" /\ b = "success"
  \/ a \notin Terminal /\ b = "error"

\* C5: every change of an entry's status made by a callback follows an
\* edge of the transition graph.
C5_FollowsGraph ==
  [][CallbackStep =>
       \A i \in 1..Len(store) :
         store'[i].status # store[i].status => Edge(store[i].status, store'[i].status)]_vars

\* The one server message the protocol expects in each active status.
ExpectedIn(st) ==
  CASE st = "connecting" -> "challenge"
    [] st = "authenticating" -> "auth_ok"
    [] st = "sending_metadata" -> "header_ok"
    [] st = "uploading" -> "upload_ok"

\* C6: a server message other than the one expected in the current status
\* of the entry that owns the transport moves the entry to error and
\* closes the transport.
C6_UnexpectedMessageIsError ==
  [][\A t \in 1..Len(socks), m \in Messages :
       (/\ WsMessage(t, m)
        /\ HasEntry(store, socks[t].id)
        /\ Entry(store, socks[t].id).ws = t
        /\ StatusOf(store, socks[t].id) \in ActiveStatus
        /\ m # ExpectedIn(StatusOf(store, socks[t].id)))
       => /\ StatusOf(store', socks[t].id) = "error"
          /\ socks'[t].rs \in {"CLOSING", "CLOSED"}]_vars

\* C7: on every transport the auth response is sent only after a
\* challenge was received, the header only after the auth response was
\* sent and auth_ok received, and a chunk only after header_ok was received.
C7_ClientMessagesOrdered ==
  \A t \in 1..Len(socks) :
    /\ socks[t].auths > 0 => "challenge" \in socks[t].rcvd
    /\ socks[t].headers > 0 => socks[t].auths > 0 /\ "auth_ok" \in socks[t].rcvd
    /\ socks[t].chunks > 0 => "header_ok" \in socks[t].rcvd

\* The entries the last run of the scheduler took out of pending.
Promoted ==
  {i \in 1..Len(files) :
     /\ files[i].status = "pending"
     /\ ~(HasEntry(store, files[i].id) /\ StatusOf(store, files[i].id) = "pending")}

Max(a, b) == IF a > b THEN a ELSE b

\* C8: once the scheduler has run on the rendered collection it has
\* promoted exactly min(|pending|, max(0, 8 - active)) entries.
C8_AdmissionArithmetic ==
  ~effectDue =>
    Cardinality(Promoted) =
      Min(CountIn(files, {"pending"}), Max(0, 8 - CountIn(files, ActiveStatus)))

\* C8 witness: ten files were selected, eight were admitted, one of them
\* reached success, and the scheduler then promoted exactly one of the two
\* that waited.
C8_Witness ==
  /\ ~effectDue
  /\ Len(files) = 10
  /\ \E i \in 1..Len(files) : files[i].status = "success"
  /\ CountIn(files, ActiveStatus) = 7
  /\ CountIn(files, {"pending"}) = 2
  /\ Cardinality(Promoted) = 1
  /\ CountIn(store, {"pending"}) = 1

C10_NothingSentAfterCancel ==
  /\ [](hist.cancelled \cap Ids(store) = {})
  /\ [][\A t \in 1..Len(socks) :
          socks[t].id \in hist.cancelled =>
            /\ socks'[t].auths = socks[t].auths
            /\ socks'[t].headers = socks[t].headers
            /\ socks'[t].chunks = socks[t].chunks]_vars

C12_RetryMakesNewEntry ==
  [][\A id \in Ids(files) :
       (onRetry(id) /\ HasEntry(store, id) /\ StatusOf(store, id) = "error")
         => /\ HasEntry(store', id) /\ StatusOf(store', id) = "error"
            /\ \E j \in Ids(store') \ Ids(store) :
                 /\ Ids(store') = Ids(store) \cup {j}
                 /\ Entry(store', j).size = Entry(store, id).size
                 /\ Entry(store', j).progress = 0
                 /\ Entry(store', j).status \in {"pending", "connecting"}]_vars

\* The transport of entry f has been served in protocol order so far.
Orderly(f) ==
  /\ f.ws \in 1..Len(socks)
  /\ socks[f.ws].id = f.id
  /\ socks[f.ws].inOrder

\* C13: the progress of every entry is an integer between 0 and 100, is 0
\* while the entry is pending, and does not decrease in a step that leaves
\* the entry uploading; stated for the entries whose transport has been
\* served in protocol order, and for every file size, 0 included.
C13_ProgressInRange ==
  /\ [](\A i \in 1..Len(store) :
          /\ store[i].status = "pending" => store[i].progress = 0
          /\ (store[i].status = "pending" \/ Orderly(store[i])) => store[i].progress \in 0..100)
  /\ [][CallbackStep =>
          \A i \in 1..Len(store) :
            (Orderly(store[i]) /\ store[i].status = "uploading" /\ store'[i].status = "uploading")
              => store'[i].progress >= store[i].progress]_vars

\* C14 as claimed: an entry has progress 100 only when its status is
\* success (stated for the entries served in protocol order).
C14_HundredOnlyAtSuccess ==
  \A i \in 1..Len(store) :
    (Orderly(store[i]) /\ store[i].progress = 100) => store[i].status = "success"

\* C14 amended: a pending entry never has progress 100, and an entry has
\* progress 100 only if one of its transports has received upload_ok or
\* has sent chunks up to at least 99.5% of the file, the point from which
\* the rounded percentage is 100; the status is then still uploading until
\* upload_ok arrives.
C14_HundredOnlyWhenSent ==
  \A i \in 1..Len(store) :
    /\ store[i].status = "pending" => store[i].progress # 100
    /\ store[i].progress = 100 =>
         \E t \in SocksOf(store[i].id) :
           \/ "upload_ok" \in socks[t].rcvd
           \/ socks[t].chunks > 0 /\ 200 * socks[t].offset >= 199 * socks[t].size

\* C14 witness: the last chunk of a transfer served in protocol order is
\* sent and the entry shows 100 while it is still uploading.
C14_Witness ==
  \E i \in 1..Len(store) :
    /\ Orderly(store[i])
    /\ store[i].progress = 100
    /\ store[i].status = "uploading"
    /\ "upload_ok" \notin socks[store[i].ws].rcvd

\* C15 as claimed: after each chunk sent for a file that is not empty the
\* progress is floor(bytesSent * 100 / fileSize); 44, 88, 100 for 9 MiB
\* (stated for the transports served in protocol order).
C15_ProgressIsFloor ==
  [][\A t \in 1..Len(socks) :
       (/\ ReaderLoad(t)
        /\ socks[t].rs = "OPEN"
        /\ socks[t].inOrder
        /\ socks[t].size > 0
        /\ HasEntry(store, socks[t].id))
         => Entry(store', socks[t].id).progress = (100 * socks'[t].offset) \div socks[t].size]_vars

\* C15 amended: after each chunk sent the progress is bytesSent * 100 /
\* fileSize rounded to the nearest integer, halves upwards; the three
\* chunks of a 9 MiB file give 44, 89, 100; an empty file gives no number.
C15_ProgressIsRound ==
  [][\A t \in 1..Len(socks) :
       (ReaderLoad(t) /\ socks[t].rs = "OPEN" /\ HasEntry(store, socks[t].id))
         => LET q == Entry(store', socks[t].id).progress
                sent == socks'[t].offset
                size == socks[t].size
            IN /\ size = 0 => q = NaN
               /\ size > 0 => 2 * q * size <= 200 * sent + size /\ 200 * sent + size < 2 * (q + 1) * size
               /\ (size = 9 * MiB /\ socks'[t].chunks = 1) => sent = 4 * MiB /\ q = 44
               /\ (size = 9 * MiB /\ socks'[t].chunks = 2) => sent = 8 * MiB /\ q = 89
               /\ (size = 9 * MiB /\ socks'[t].chunks = 3) => sent = 9 * MiB /\ q = 100]_vars

\* C15 witness: the third chunk of a 9 MiB file, served in protocol order,
\* has been sent.
C15_Witness ==
  \E i \in 1..Len(store) :
    /\ Orderly(store[i])
    /\ store[i].size = 9 * MiB
    /\ socks[store[i].ws].chunks = 3
    /\ socks[store[i].ws].offset = 9 * MiB
    /\ store[i].progress = 100

\* ceil(size / CHUNK_SIZE)
ChunksOf(size) == (size + CHUNK_SIZE - 1) \div CHUNK_SIZE

\* C16: on a transport served in protocol order the chunk messages sent
\* never number more than ceil(S / 4 MiB), the bytes sent are the first
\* min(S, chunks * 4 MiB) bytes of the file, and when upload_ok has come
\* exactly ceil(S / 4 MiB) chunk messages were sent; for every size S,
\* 0 included.
C16_ChunkSequence ==
  \A t \in 1..Len(socks) :
    socks[t].inOrder =>
      /\ socks[t].chunks <= ChunksOf(socks[t].size)
      /\ socks[t].offset = Min(socks[t].size, socks[t].chunks * CHUNK_SIZE)
      /\ "upload_ok" \in socks[t].rcvd => socks[t].chunks = ChunksOf(socks[t].size)

\* C17: when auth_error arrives on the transport of an authenticating
\* entry, the entry becomes error with cause "Authentication failed", the
\* client closes the transport, and the number of active entries drops by
\* one; and on a transport that is closing or closed no auth response,
\* header or chunk is sent any more.
C17_AuthErrorEndsAttempt ==
  /\ [][\A t \in 1..Len(socks) :
          (/\ WsMessage(t, "auth_error")
           /\ HasEntry(store, socks[t].id)
           /\ Entry(store, socks[t].id).ws = t
           /\ StatusOf(store, socks[t].id) = "authenticating")
          => /\ StatusOf(store', socks[t].id) = "error"
             /\ Entry(store', socks[t].id).error = "Authentication failed"
             /\ socks'[t].rs \in {"CLOSING", "CLOSED"}
             /\ CountIn(store', ActiveStatus) = CountIn(store, ActiveStatus) - 1]_vars
  /\ [][\A t \in 1..Len(socks) :
          socks[t].rs \in {"CLOSING", "CLOSED"}
          => /\ socks'[t].rs \in {"CLOSING", "CLOSED"}
             /\ socks'[t].auths = socks[t].auths
             /\ socks'[t].headers = socks[t].headers
             /\ socks'[t].chunks = socks[t].chunks]_vars

\* C17 witness: an entry that got the challenge was refused: it is error
\* with the authentication cause, its transport closing, no header sent.
C17_Witness ==
  \E i \in 1..Len(store) :
    /\ store[i].status = "error"
    /\ store[i].error = "Authentication failed"
    /\ store[i].ws \in 1..Len(socks)
    /\ socks[store[i].ws].rcvd = {"challenge"}
    /\ socks[store[i].ws].rs = "CLOSING"
    /\ socks[store[i].ws].headers = 0
    /\ socks[store[i].ws].chunks = 0

\* C18: while an entry is sending_metadata (its transport served in
\* protocol order until then), every server message other than header_ok
\* moves it to error and closes the transport, so that no chunk is sent;
\* the cause is "Invalid header" (read generously: any rejection cause).
C18_NonHeaderOkIsInvalidHeader ==
  [][\A t \in 1..Len(socks), m \in Messages \ {"header_ok"} :
       (/\ WsMessage(t, m)
        /\ socks[t].inOrder
        /\ HasEntry(store, socks[t].id)
        /\ Entry(store, socks[t].id).ws = t
        /\ StatusOf(store, socks[t].id) = "sending_metadata")
       => /\ StatusOf(store', socks[t].id) = "error"
          /\ Entry(store', socks[t].id).error \in
               {"Invalid header", "Authentication failed", "Upload failed", "Server error"}
          /\ socks'[t].rs \in {"CLOSING", "CLOSED"}]_vars

\* C19: every callback of a transport, of its reader or of its hash
\* promise, whatever its outcome, concerns one transport t: it leaves every
\* entry whose id is not that of t exactly as it was (status, progress,
\* cause, ws), adds and removes no entry, and leaves every other transport
\* as it was.
C19_EventsAreLocal ==
  [][CallbackStep =>
       /\ Len(store') = Len(store)
       /\ Len(socks') = Len(socks)
       /\ \E t \in 1..Len(socks) :
            /\ \A u \in 1..Len(socks) : u # t => socks'[u] = socks[u]
            /\ \A i \in 1..Len(store) : store[i].id # socks[t].id => store'[i] = store[i]]_vars

\* C19 witness: of two entries one has failed on its transport while the
\* other, half way through its own exchange, is untouched.
C19_Witness ==
  /\ Len(store) = 2
  /\ store[1].status = "error"
  /\ store[1].error = "Connection failed"
  /\ store[2].status = "authenticating"
  /\ store[2].error = "none"
  /\ store[2].ws \in 1..Len(socks)
  /\ socks[store[2].ws].rs = "OPEN"

\* C20: no entry is connecting, authenticating, sending_metadata or
\* uploading once the transport its ws field names has closed, so that
\* every failure gives its slot back to the scheduler.
C20_ClosedTransportFreesSlot ==
  \A i \in 1..Len(store) :
    (store[i].ws \in 1..Len(socks) /\ socks[store[i].ws].rs = "CLOSED")
      => store[i].status \notin ActiveStatus

\* C21: the collection keeps the entries in the order they were selected
\* (ids are given in selection order), and admission is first-in first-out:
\* no entry is pending while an entry selected after it has been promoted,
\* in the queued state and in the rendered one.
C21_AdmissionIsFifo ==
  /\ \A i, j \in 1..Len(store) : i < j => store[i].id < store[j].id
  /\ \A i, j \in 1..Len(store) :
       (i < j /\ store[i].status = "pending") => store[j].status = "pending"
  /\ \A i, j \in 1..Len(files) :
       (i < j /\ files[i].status = "pending") => files[j].status = "pending"

\* C21 witness: of ten entries the cap kept two waiting; a slot came free
\* and the scheduler promoted the ninth while the tenth still waits.
C21_Witness ==
  /\ Len(store) = 10
  /\ store[9].status = "connecting"
  /\ store[10].status = "pending"
  /\ CountIn(store, Terminal) = 1

\* C22: a callback that ends an active entry (success or error) takes
\* exactly that entry out of the active count and leaves every other entry
\* as it was, whether or not an earlier update is still waiting for its
\* render; and the render that follows shows the whole queued state.  So
\* two terminal events delivered back to back are both applied.
C22_NoLostUpdate ==
  /\ [][CallbackStep =>
          \A i \in 1..Len(store) :
            (store[i].status \in ActiveStatus /\ store'[i].status \in Terminal)
              => /\ CountIn(store', ActiveStatus) = CountIn(store, ActiveStatus) - 1
                 /\ \A j \in 1..Len(store) : j # i => store'[j] = store[j]]_vars
  /\ [][(effectDue' /\ ~effectDue) => (files' = store /\ store' = store)]_vars

\* C22 witness: two entries, both rendered as active, have both been ended
\* by their transports before any re-render.
C22_Witness ==
  /\ dirty
  /\ Len(store) = 2
  /\ Len(files) = 2
  /\ \A i \in 1..2 :
       /\ files[i].status \in ActiveStatus
       /\ store[i].status \in Terminal
       /\ store[i].id = files[i].id

\* C27: an entry is success only when the transport its ws field names has
\* sent the whole file (bytesSent = fileSize).
C27_SuccessOnlyAfterLastChunk ==
  \A i \in 1..Len(store) :
    store[i].status = "success" =>
      /\ store[i].ws \in 1..Len(socks)
      /\ socks[store[i].ws].offset = store[i].size

\* C28: an entry holds a transport handle exactly when its status is
\* connecting, authenticating, sending_metadata or uploading.
C28_HandleIffActive ==
  \A i \in 1..Len(store) : (store[i].ws # 0) <=> (store[i].status \in ActiveStatus)

\* C28 amended: an entry holds a transport handle from its first start on:
\* a pending entry holds none, an active entry always holds one, opened
\* for it, and a success or error entry keeps the handle of its last
\* attempt; only an entry whose WebSocket could not be constructed is
\* error without a handle.
C28_HandleFromStartOn ==
  \A i \in 1..Len(store) :
    /\ store[i].status = "pending" => store[i].ws = 0
    /\ store[i].status \in ActiveStatus \cup {"success"} =>
         store[i].ws \in 1..Len(socks) /\ socks[store[i].ws].id = store[i].id
    /\ (store[i].status = "error" /\ store[i].ws = 0) =>
         ~urlOk /\ store[i].error = "Invalid URL"
    /\ (store[i].status = "error" /\ store[i].ws # 0) =>
         urlOk /\ store[i].ws \in 1..Len(socks) /\ socks[store[i].ws].id = store[i].id

\* C28 witness: an entry that reached success, and one that failed, still
\* hold the handles of their transports, closed or closing.
C28_Witness ==
  /\ \E i \in 1..Len(store) :
       /\ store[i].status = "success"
       /\ store[i].ws \in 1..Len(socks)
       /\ socks[store[i].ws].rs \in {"CLOSING", "CLOSED"}
  /\ \E i \in 1..Len(store) :
       /\ store[i].status = "error"
       /\ store[i].ws \in 1..Len(socks)
       /\ socks[store[i].ws].rs = "CLOSED"

\* C29: no entry has, at any time, more than one transport that is not yet
\* closed (connecting, open, or closing and still to deliver its events).
C29_OneTransportPerEntry ==
  \A i \in 1..Len(store) :
    Cardinality({t \in SocksOf(store[i].id) : socks[t].rs # "CLOSED"}) <= 1

\* C30: an entry has an error cause if and only if its status is error.
C30_CauseIffError ==
  \A i \in 1..Len(store) : (store[i].error # "none") <=> (store[i].status = "error")

\* C25: a page configured from the token and backendUrl parameters of the
\* address is locked: a reset request leaves the active configuration and
\* the stored apiToken and backendUrl as they were.
C25_ResetLockedByUrl ==
  [][(ClickReset /\ page.isUrlConfigured) =>
       /\ page'.config = page.config
       /\ page'.apiToken = page.apiToken
       /\ page'.backendUrl = page.backendUrl]_vars

\* A reset was requested on a URL-configured page that has stored values.
C25_Witness ==
  /\ page.isUrlConfigured
  /\ page.last = "reset"
  /\ page.toast = "Configuration Locked"
  /\ page.apiToken # Null
  /\ page.backendUrl # Null

\* C26: a configuration the setup form accepted and stored (any accepted
\* token, the empty one included) is the configuration the page has after
\* the next load at an address without parameters.
C26_SavedIsRestored ==
  (/\ page.last = "load"
   /\ page.urlToken = Null
   /\ page.urlBackend = Null
   /\ page.saved # NoConfig) => page.config = page.saved

\* The SHA-256 digests of the texts the bounds allow, as published
\* reference values in lower-case hex; the first is the golden vector.
GoldenChallenge == Ascii(<<"a", "b", "c", "1", "2", "3">>)
GoldenToken == Ascii(<<"i", "n", "-", "m", "e", "m", "o", "r", "y", "-", "t", "o", "k", "e", "n">>)
GoldenResponse ==
  Ascii(<<"6", "0", "6", "7", "d", "7", "5", "6", "0", "7", "d", "d", "1", "6", "9", "1",
           "a", "f", "d", "4", "9", "b", "2", "9", "b", "b", "1", "5", "8", "e", "c", "9",
           "f", "9", "b", "d", "9", "3", "7", "5", "f", "0", "f", "2", "7", "a", "6", "6",
           "1", "a", "2", "1", "0", "8", "a", "b", "2", "f", "2", "0", "a", "5", "2", "e">>)
ReferenceHex(c, tk) ==
  CASE c = GoldenChallenge /\ tk = GoldenToken -> GoldenResponse
    [] c = GoldenChallenge /\ tk = <<>> ->
         Ascii(<<"c", "1", "2", "3", "3", "6", "0", "6", "4", "4", "7", "c", "3", "6", "f", "2",
           "a", "2", "c", "d", "7", "7", "6", "5", "2", "d", "a", "9", "2", "0", "c", "0",
           "6", "1", "b", "5", "d", "0", "e", "6", "d", "c", "d", "b", "5", "c", "6", "c",
           "0", "e", "6", "1", "8", "1", "d", "5", "f", "7", "9", "d", "c", "c", "7", "b">>)
    [] c = <<233>> /\ tk = GoldenToken ->
         Ascii(<<"d", "e", "0", "2", "d", "a", "d", "5", "e", "a", "a", "1", "6", "e", "6", "9",
           "5", "1", "b", "9", "0", "0", "a", "5", "6", "b", "a", "4", "d", "2", "2", "0",
           "5", "9", "4", "7", "f", "7", "0", "6", "a", "4", "3", "9", "0", "1", "f", "6",
           "1", "5", "f", "2", "9", "9", "f", "2", "c", "e", "8", "a", "b", "7", "5", "5">>)
    [] c = <<233>> /\ tk = <<>> ->
         Ascii(<<"2", "a", "a", "e", "7", "d", "3", "6", "6", "e", "e", "2", "0", "2", "a", "d",
           "2", "b", "2", "7", "e", "a", "3", "f", "5", "c", "4", "7", "f", "5", "f", "4",
           "0", "7", "3", "a", "f", "6", "c", "7", "1", "3", "f", "a", "2", "5", "3", "d",
           "c", "b", "4", "1", "a", "2", "1", "1", "e", "e", "2", "1", "1", "d", "3", "4">>)

AuthPrefix == Ascii(<<"a", "u", "t", "h", ":">>)

\* C24: every auth frame sent in answer to challenge c is auth: followed by
\* the lower-case hex SHA-256 of the UTF-8 bytes of c, a colon and the
\* token; for abc123 and in-memory-token that is the golden vector.
C24_AuthIsSha256Hex ==
  \A i \in 1..Len(auth.runs) : \A n \in 1..Len(auth.runs[i].sent) :
    auth.runs[i].sent[n].kind = "text" =>
      auth.runs[i].sent[n].data = AuthPrefix \o ReferenceHex(auth.runs[i].sent[n].re, auth.runs[i].token)

\* The golden vector has been sent.
C24_Witness ==
  \E i \in 1..Len(auth.runs) : \E n \in 1..Len(auth.runs[i].sent) :
    /\ auth.runs[i].token = GoldenToken
    /\ auth.runs[i].sent[n].re = GoldenChallenge
    /\ auth.runs[i].sent[n].data = AuthPrefix \o GoldenResponse

\* The text after auth: is a digest in hex (64 hex digits), not the token.
IsDigestText(data, token) ==
  /\ Len(data) = Len(AuthPrefix) + 64
  /\ SubSeq(data, 1, Len(AuthPrefix)) = AuthPrefix
  /\ \A x \in (Len(AuthPrefix) + 1)..Len(data) : \E d \in 1..16 : data[x] = HexDigits[d]
  /\ SubSeq(data, Len(AuthPrefix) + 1, Len(data)) # token

\* C23: two runs that differ only in the token send the same frames but
\* for the value after auth:, and that value is a digest, never the token
\* in clear.
C23_OnlyAuthValueDependsOnToken ==
  Len(auth.runs) = 2 =>
    LET s1 == auth.runs[1].sent
        s2 == auth.runs[2].sent
    IN /\ Len(s1) = Len(s2)
       /\ \A n \in 1..Len(s1) :
            IF s1[n].kind = "text"
              THEN /\ s2[n].kind = "text"
                   /\ s1[n].re = s2[n].re
                   /\ IsDigestText(s1[n].data, auth.runs[1].token)
                   /\ IsDigestText(s2[n].data, auth.runs[2].token)
              ELSE s1[n] = s2[n]

\* Both runs have sent the auth response, the header and a chunk, and the
\* auth values differ.
C23_Witness ==
  /\ Len(auth.runs) = 2
  /\ Len(auth.runs[1].sent) >= 3
  /\ \E n \in 1..Len(auth.runs[1].sent) :
       auth.runs[1].sent[n].kind = "text" /\ auth.runs[1].sent[n].data # auth.runs[2].sent[n].data
  /\ \E n \in 1..Len(auth.runs[1].sent) : auth.runs[1].sent[n].kind = "binary"
  /\ \E n \in 1..Len(auth.runs[1].sent) : auth.runs[1].sent[n].kind = "slice"

\* C31: on each transport a read is started only when every chunk read
\* before has been handed to the transport, so at most one read is
\* outstanding, and each chunk is sent at an offset above that of the chunk
\* sent before it (stated here for the files that have bytes to send).
C31_OneChunkInFlight ==
  /\ [](\A t \in 1..Len(socks) :
          /\ socks[t].size > 0 => socks[t].rising
          /\ socks[t].reading => socks[t].reads = socks[t].chunks + 1)
  /\ [][\A t \in 1..Len(socks) :
          socks'[t].reads > socks[t].reads =>
            /\ socks'[t].reads = socks[t].reads + 1
            /\ socks'[t].chunks = socks[t].reads]_vars

\* C32: a retry opens a transport of its own, one that has received and
\* sent nothing and stands at offset 0, and leaves the transports of the
\* earlier attempts as they are; on every transport the auth response
\* follows its challenge, the header its auth_ok, the chunks its header_ok,
\* and the offset counts only the chunks sent on it.
C32_RetryStartsAfresh ==
  /\ [](\A t \in 1..Len(socks) :
          /\ socks[t].auths > 0 => "challenge" \in socks[t].rcvd
          /\ socks[t].headers > 0 => "auth_ok" \in socks[t].rcvd
          /\ socks[t].chunks > 0 => "header_ok" \in socks[t].rcvd
          /\ socks[t].offset <= socks[t].chunks * CHUNK_SIZE
          /\ socks[t].chunks = 0 => socks[t].offset = 0)
  /\ [][\A id \in Ids(files) :
          (onRetry(id) /\ urlOk) =>
            LET t == Len(socks) + 1
            IN /\ Len(socks') >= t
               /\ SubSeq(socks', 1, Len(socks)) = socks
               /\ socks'[t].id = id
               /\ socks'[t].rs = "CONNECTING"
               /\ socks'[t].offset = 0
               /\ socks'[t].rcvd = {}
               /\ socks'[t].auths = 0 /\ socks'[t].headers = 0 /\ socks'[t].chunks = 0
               /\ ~socks'[t].reading
               /\ HasEntry(store', id)
               /\ Entry(store', id).ws = t
               /\ Entry(store', id).status = "connecting"
               /\ Entry(store', id).progress = 0]_vars

\* The first attempt failed after a chunk; the retry has a second
\* transport, which is reading its first chunk at offset 0.
C32_Witness ==
  /\ hist.retried
  /\ Len(store) = 1 /\ Len(socks) = 2
  /\ store[1].ws = 2
  /\ socks[1].chunks > 0 /\ socks[1].offset > 0 /\ socks[1].rs = "CLOSED"
  /\ socks[2].reading /\ socks[2].offset = 0 /\ socks[2].chunks = 0

\* C33: when a file read fails while the entry is uploading, the entry
\* becomes error with the read-error cause, the entry's transport is no
\* longer open, and neither that transport nor the one of the failed read
\* has a read outstanding.
C33_ReadErrorEndsAttempt ==
  [][\A t \in 1..Len(socks) :
       (/\ ReaderError(t)
        /\ HasEntry(store, socks[t].id)
        /\ StatusOf(store, socks[t].id) = "uploading") =>
         LET f == Entry(store', socks[t].id)
         IN /\ f.status = "error"
            /\ f.error = "File read error"
            /\ socks'[t].rs # "OPEN"
            /\ ~socks'[t].reading
            /\ socks'[f.ws].rs # "OPEN"
            /\ ~socks'[f.ws].reading]_vars

\* C34: a close event of a transport puts the entry of its id, when that
\* entry is neither success nor error, in error with the cause "Connection
\* lost" and changes nothing else of it; an entry that is success or error
\* stays exactly as it is, and so does every other entry.
C34_CloseOnlyEndsLiveEntries ==
  [][\A t \in 1..Len(socks) :
       WsClosed(t) =>
         /\ Len(store') = Len(store)
         /\ \A i \in 1..Len(store) :
              IF store[i].id = socks[t].id /\ store[i].status \notin Terminal
                THEN store'[i] = [store[i] EXCEPT !.status = "error", !.error = "Connection lost"]
                ELSE store'[i] = store[i]]_vars

\* A transport has closed without an error event and its entry is success.
C34_Witness ==
  \E t \in 1..Len(socks) :
    /\ socks[t].rs = "CLOSED"
    /\ ~socks[t].aborted
    /\ HasEntry(store, socks[t].id)
    /\ StatusOf(store, socks[t].id) = "success"
    /\ Entry(store, socks[t].id).error = "none"

\* C35: an entry that is in error before and after a callback keeps the
\* cause it has.
C35_FirstCauseStays ==
  [][CallbackStep =>
       \A i \in 1..Len(store) :
         (/\ i <= Len(store')
          /\ store'[i].id = store[i].id
          /\ store[i].status = "error"
          /\ store'[i].status = "error") => store'[i].error = store[i].error]_vars

\* The transports whose callback the step runs.
Fired == {t \in 1..Len(socks) : socks'[t] # socks[t]}

\* C36: once an entry has been retried, a callback of a transport that is
\* not the one its entry records leaves the entry as it is, leaves the entry's own transport as it is and
\* opens no transport.
C36_OldTransportIsInert ==
  [][(CallbackStep /\ hist.retried) =>
       \A t \in Fired :
         \A i \in 1..Len(store) :
           (store[i].id = socks[t].id /\ store[i].ws # t) =>
             /\ Len(store') = Len(store)
             /\ store'[i] = store[i]
             /\ Len(socks') = Len(socks)
             /\ store[i].ws \in 1..Len(socks) => socks'[store[i].ws] = socks[store[i].ws]]_vars

\* C37: Clear All leaves in the collection exactly the entries that were
\* neither success nor error, each as it was, in their order.
C37_ClearAllOnlyRemovesFinished ==
  [][clearAll => store' = SelectSeq(store, LAMBDA f : f.status \notin Terminal)]_vars

\* C38: as long as nothing has been retried, no entry id has had more than
\* one transport opened for it.
C38_OneTransportPerEntry ==
  ~hist.retried => \A t, u \in 1..Len(socks) : socks[t].id = socks[u].id => t = u

\* The scheduler effect has run on the collection as it is now: every
\* queued update is rendered and no effect is outstanding.
Settled == ~dirty /\ ~effectDue

\* C39: when the scheduler has run on the current collection, that
\* collection is the rendered one, and either no entry is pending or at
\* least MAX_CONCURRENT_UPLOADS entries are active.
C39_WorkConserving ==
  Settled =>
    /\ files = store
    /\ \/ CountIn(store, {"pending"}) = 0
       \/ CountIn(store, ActiveStatus) >= MAX_CONCURRENT_UPLOADS

\* The scheduler has promoted an entry after a success and has run again;
\* entries are still waiting because all the slots are taken.
C39_Witness ==
  /\ Settled
  /\ CountIn(store, {"pending"}) > 0
  /\ CountIn(store, ActiveStatus) = MAX_CONCURRENT_UPLOADS
  /\ CountIn(store, {"success"}) > 0
  /\ Len(socks) > MAX_CONCURRENT_UPLOADS
====
